---- MODULE Spec2Model ----
(***************************************************************************)
(* Model of src/app.py: the document parser API.                           *)
(*                                                                         *)
(*   POST /parse             parse_document        (lines 44-103)          *)
(*   GET  /supported-formats get_supported_formats (lines 105-108)         *)
(*                                                                         *)
(* Both handlers are coroutines (async def) served by one event loop: a    *)
(* coroutine keeps the loop from the moment it is resumed until it awaits  *)
(* or finishes.  Text is modelled as tuples of one-character strings, so   *)
(* that lower-casing and suffix extraction are computed, not assumed.      *)
(***************************************************************************)
EXTENDS Integers, Sequences, FiniteSets, TLC

(* ------------------------------ bounds --------------------------------- *)

\* number of POST /parse requests in flight
NumRequests == 2

Requests == 1..NumRequests

\* random parts that tempfile's name generator may return
TempIds == 1..NumRequests

(* ------------------------------ text ----------------------------------- *)

UpperLetters ==
  <<"A","B","C","D","E","F","G","H","I","J","K","L","M",
    "N","O","P","Q","R","S","T","U","V","W","X","Y","Z">>

LowerLetters ==
  <<"a","b","c","d","e","f","g","h","i","j","k","l","m",
    "n","o","p","q","r","s","t","u","v","w","x","y","z">>

\* a mutant of LowerChar: the character is left as it is
LowerCharKeepsCase(c) == c

\* str.lower() on one character
LowerChar(c) ==
  IF \E i \in 1..Len(UpperLetters) : UpperLetters[i] = c
  THEN LowerLetters[CHOOSE i \in 1..Len(UpperLetters) : UpperLetters[i] = c]
  ELSE c

\* str.lower()
Lower(s) == [i \in 1..Len(s) |-> LowerChar(s[i])]

\* str.upper() on one character (used to build upper-case file names)
UpperChar(c) ==
  IF \E i \in 1..Len(LowerLetters) : LowerLetters[i] = c
  THEN UpperLetters[CHOOSE i \in 1..Len(LowerLetters) : LowerLetters[i] = c]
  ELSE c

Upper(s) == [i \in 1..Len(s) |-> UpperChar(s[i])]

\* str.rfind("."), 1-based; 0 when there is no dot
RFindDot(s) ==
  IF \E i \in 1..Len(s) : s[i] = "."
  THEN CHOOSE i \in 1..Len(s) :
         /\ s[i] = "."
         /\ \A j \in (i+1)..Len(s) : s[j] # "."
  ELSE 0

\* pathlib's PurePath.suffix of a file name without separators: the text from
\* the last dot on, unless that dot is the first or the last character
PathSuffix(name) ==
  LET i == RFindDot(name) IN
    IF 1 < i /\ i < Len(name) THEN SubSeq(name, i, Len(name)) ELSE <<>>

\* Path(file.filename).suffix.lower()
SuffixOf(filename) == Lower(PathSuffix(filename))

(* --------------------------- parser registry --------------------------- *)

\* PARSER_MAP, a dict: its items in insertion order
PARSER_MAP ==
  << << <<".","p","d","f">>,     "PdfParser"      >>,
     << <<".","d","o","c","x">>, "DocxParser"     >>,
     << <<".","x","l","s","x">>, "ExcelParser"    >>,
     << <<".","x","l","s">>,     "ExcelParser"    >>,
     << <<".","p","p","t","x">>, "PptParser"      >>,
     << <<".","p","p","t">>,     "PptParser"      >>,
     << <<".","h","t","m","l">>, "HtmlParser"     >>,
     << <<".","j","s","o","n">>, "JsonParser"     >>,
     << <<".","m","d">>,         "MarkdownParser" >>,
     << <<".","t","x","t">>,     "TxtParser"      >> >>

\* a mutant of Keys: the keys in reverse order
KeysReversed(map) == [i \in 1..Len(map) |-> map[Len(map) + 1 - i][1]]

\* list(d.keys()) / iteration over d.keys()
Keys(map) == [i \in 1..Len(map) |-> map[i][1]]

\* a mutant of Contains: every suffix passes for a key
ContainsAnything(map, key) == TRUE

\* suffix in d
Contains(map, key) == \E i \in 1..Len(map) : map[i][1] = key

\* d[suffix]
Lookup(map, key) == map[CHOOSE i \in 1..Len(map) : map[i][1] = key][2]

(* ------------------------ exceptions and responses ---------------------- *)

\* an exception other than HTTPException; str(e) is its message
Error(type, msg) == [type |-> type, status |-> 0, detail |-> msg]

\* fastapi.HTTPException(status_code=..., detail=...)
HTTPException(status, detail) ==
  [type |-> "HTTPException", status |-> status, detail |-> detail]

\* str(e): starlette's HTTPException prints "<status_code>: <detail>", any other
\* exception prints its message
Str(e) ==
  IF e.type = "HTTPException" THEN <<e.status, ": ", e.detail>> ELSE e.detail

\* f"Unsupported file type: {suffix}. Supported types are: {', '.join(PARSER_MAP.keys())}"
UnsupportedDetail(sfx, map) ==
  <<"Unsupported file type: ", sfx, ". Supported types are: ", Keys(map)>>

\* the exception raised at lines 62-65
UnsupportedFormat(sfx, map) == HTTPException(400, UnsupportedDetail(sfx, map))

\* a mutant of ErrorEnvelope: the caught exception is raised again unchanged
ErrorEnvelopeReraises(e) == e

\* the exception raised at lines 100-103 for the caught exception e
ErrorEnvelope(e) == HTTPException(500, <<"Error processing file: ", Str(e)>>)

\* the value returned at line 80, a JSON object: its keys and values in turn
SuccessEnvelope(result) == <<"status", "success", "content", result>>

\* what the client receives when the handler returns value v
ReturnResponse(v) == [status |-> 200, body |-> v]

\* what the client receives when the handler raises e: the framework answers an
\* HTTPException with its status and {"detail": detail}; anything else is an
\* unhandled fault, answered by the server's plain "Internal Server Error"
RaiseResponse(e) ==
  IF e.type = "HTTPException"
  THEN [status |-> e.status, body |-> <<"detail", e.detail>>]
  ELSE [status |-> 500, body |-> <<"Internal Server Error">>]

NoResponse == [status |-> 0, body |-> <<>>]

\* the pending outcome of the try block at lines 69-80 while its finally runs
NoPending == [kind |-> "none", value |-> <<>>]
Returning(v) == [kind |-> "return", value |-> v]
Raising(e) == [kind |-> "raise", value |-> e]

(* ------------------------------ inputs --------------------------------- *)

\* every way of writing the text s in upper- and lower-case letters
RECURSIVE CaseVariants(_)
CaseVariants(s) ==
  IF s = <<>> THEN {<<>>}
  ELSE {<<c>> \o t : c \in {LowerChar(s[1]), UpperChar(s[1])}, t \in CaseVariants(Tail(s))}

\* suffixes that are no key of PARSER_MAP, and file names without a suffix
OtherNames ==
  { <<"a",".","x","y","z">>,
    <<"a",".","p","d">>,
    <<"a",".","P","D","F","x">>,
    <<"a",".","p","d","f",".">>,
    <<"a",".","t","x","t",".","B","A","K">>,
    <<"a","p","d","f">>,
    <<".","t","x","t">>,
    <<".","P","D","F">>,
    <<"a">>,
    <<>> }

\* what precedes the suffix in the file names
Stems == { <<"a">>, <<"a",".","b">> }

\* file names of the uploads (UploadFile.filename), without path separators:
\* a stem followed by a key of PARSER_MAP in any mix of cases, and OtherNames
FileNames ==
  UNION { { stem \o v : v \in CaseVariants(PARSER_MAP[k][1]) } :
            k \in 1..Len(PARSER_MAP),
            stem \in Stems }
  \cup OtherNames

\* file names of requests that are handled concurrently
ConcurrentNames == { <<"a",".","P","d","f">>, <<"a",".","x","y","z">> }

\* what os.unlink can do to an existing file
UnlinkOutcomes == {"ok", "PermissionError", "OSError"}

(* ------------------------------ state ---------------------------------- *)

VARIABLES
  parserMap,  \* the module-level dict PARSER_MAP
  loop,       \* the request whose coroutine holds the event loop, 0: loop idle
  disk,       \* the paths that exist in the temporary directory
  formats,    \* the last answer of GET /supported-formats
  pc,         \* per request: where its coroutine stands
  filename,   \* per request: file.filename
  suffix,     \* per request: the local suffix
  temp_file,  \* per request: the local temp_file (name, open/closed state)
  parser,     \* per request: the class of the local parser
  pending,    \* per request: the outcome the finally block will let through
  i,          \* per request: the loop variable of the deletion loop
  attempts,   \* per request: calls of os.unlink so far
  sleeps,     \* per request: calls of time.sleep(0.1) so far
  last,       \* per request: how the last call of os.unlink ended
  created,    \* per request: the files it has created in the temporary directory
  released,   \* per request: the times its finally block has been entered
  stdout,     \* per request: the warnings printed so far
  resp        \* per request: the response sent to the client

vars ==
  <<parserMap, loop, disk, formats, pc, filename, suffix, temp_file, parser,
    pending, i, attempts, sleeps, last, created, released, stdout, resp>>

\* max_retries, line 85
max_retries == 3

\* temp_file = None, line 55
None == [name |-> <<0, <<>>>>, state |-> "none", written |-> FALSE, flushed |-> FALSE]

\* the service has started and the event loop is idle; either every request
\* has been received, or a single one has, with any of FileNames
Init ==
  /\ parserMap = PARSER_MAP
  /\ loop = 0
  /\ disk = {}
  /\ formats = NoResponse
  /\ \/ /\ pc = [r \in Requests |-> "received"]
        /\ filename \in [Requests -> ConcurrentNames]
     \/ /\ pc = [r \in Requests |-> IF r = 1 THEN "received" ELSE "none"]
        /\ \E n \in FileNames : filename = [r \in Requests |-> IF r = 1 THEN n ELSE <<>>]
  /\ suffix = [r \in Requests |-> <<>>]
  /\ temp_file = [r \in Requests |-> None]
  /\ parser = [r \in Requests |-> "none"]
  /\ pending = [r \in Requests |-> NoPending]
  /\ i = [r \in Requests |-> 0]
  /\ attempts = [r \in Requests |-> 0]
  /\ sleeps = [r \in Requests |-> 0]
  /\ last = [r \in Requests |-> "none"]
  /\ created = [r \in Requests |-> 0]
  /\ released = [r \in Requests |-> 0]
  /\ stdout = [r \in Requests |-> <<>>]
  /\ resp = [r \in Requests |-> NoResponse]

(* ---------------------- POST /parse: parse_document -------------------- *)

\* lines 55-65: the handler starts, takes the suffix of the file name and
\* checks it against the registry
Enter(r) ==
  /\ pc[r] = "received"
  /\ loop = 0
  /\ loop' = r
  /\ LET s == SuffixOf(filename[r]) IN
       /\ suffix' = [suffix EXCEPT ![r] = s]
       /\ IF ~Contains(parserMap, s)
          THEN /\ pending' = [pending EXCEPT ![r] = Raising(UnsupportedFormat(s, parserMap))]
               /\ pc' = [pc EXCEPT ![r] = "except"]
          ELSE /\ pc' = [pc EXCEPT ![r] = "create"]
               /\ UNCHANGED pending
  /\ UNCHANGED <<parserMap, disk, formats, filename, temp_file, parser, i,
                 attempts, sleeps, last, created, released, stdout, resp>>

\* a mutant of CanCreate: a path that exists is taken as well
CanCreateOverExisting(d, path) == TRUE

\* NamedTemporaryFile opens its file exclusively: a path that exists is not
\* taken
CanCreate(d, path) == path \notin d

\* line 68, then the await of line 71: NamedTemporaryFile(delete=False,
\* suffix=suffix) creates a file whose path does not exist yet and returns it
\* open, or raises; the coroutine then suspends in file.read()
Create(r) ==
  /\ pc[r] = "create"
  /\ loop = r
  /\ \/ \E id \in TempIds :
          LET path == <<id, suffix[r]>> IN
            /\ CanCreate(disk, path)
            /\ disk' = disk \cup {path}
            /\ created' = [created EXCEPT ![r] = @ + 1]
            /\ temp_file' = [temp_file EXCEPT ![r] =
                 [name |-> path, state |-> "open", written |-> FALSE, flushed |-> FALSE]]
            /\ pc' = [pc EXCEPT ![r] = "read"]
            /\ loop' = 0
            /\ UNCHANGED pending
     \/ /\ pending' = [pending EXCEPT ![r] = Raising(Error("OSError", <<"create">>))]
        /\ pc' = [pc EXCEPT ![r] = "except"]
        /\ UNCHANGED <<disk, temp_file, loop, created>>
  /\ UNCHANGED <<parserMap, formats, filename, suffix, parser, i, attempts,
                 sleeps, last, released, stdout, resp>>

\* a mutant of RaiseInTry: the exception is noted and the try body goes on
\* to the parser
RaiseGoesOnToParser(r, e) ==
  /\ pending' = [pending EXCEPT ![r] = Raising(e)]
  /\ pc' = [pc EXCEPT ![r] = "construct"]

\* a mutant of RaiseInTry: the exception leaves the try body without the
\* finally block being run
RaiseSkipsFinally(r, e) ==
  /\ pending' = [pending EXCEPT ![r] = Raising(e)]
  /\ pc' = [pc EXCEPT ![r] = "except"]

\* an operation of the try body (lines 71-79) raises: the finally block runs
\* with the exception pending
RaiseInTry(r, e) ==
  /\ pending' = [pending EXCEPT ![r] = Raising(e)]
  /\ pc' = [pc EXCEPT ![r] = "finally"]

\* line 71: content = await file.read() completes; the coroutine is resumed
Read(r) ==
  /\ pc[r] = "read"
  /\ loop = 0
  /\ loop' = r
  /\ \/ /\ pc' = [pc EXCEPT ![r] = "write"]
        /\ UNCHANGED pending
     \/ RaiseInTry(r, Error("OSError", <<"read">>))
  /\ UNCHANGED <<parserMap, disk, formats, filename, suffix, temp_file, parser,
                 i, attempts, sleeps, last, created, released, stdout, resp>>

\* line 72: temp_file.write(content)
Write(r) ==
  /\ pc[r] = "write"
  /\ loop = r
  /\ \/ /\ temp_file' = [temp_file EXCEPT ![r].written = TRUE]
        /\ pc' = [pc EXCEPT ![r] = "flush"]
        /\ UNCHANGED pending
     \/ /\ RaiseInTry(r, Error("OSError", <<"write">>))
        /\ UNCHANGED temp_file
  /\ UNCHANGED <<parserMap, loop, disk, formats, filename, suffix, parser, i,
                 attempts, sleeps, last, created, released, stdout, resp>>

\* line 73: temp_file.flush()
Flush(r) ==
  /\ pc[r] = "flush"
  /\ loop = r
  /\ \/ /\ temp_file' = [temp_file EXCEPT ![r].flushed = TRUE]
        /\ pc' = [pc EXCEPT ![r] = "close"]
        /\ UNCHANGED pending
     \/ /\ RaiseInTry(r, Error("OSError", <<"flush">>))
        /\ UNCHANGED temp_file
  /\ UNCHANGED <<parserMap, loop, disk, formats, filename, suffix, parser, i,
                 attempts, sleeps, last, created, released, stdout, resp>>

\* a mutant of AfterClose: the handle stays open
AfterCloseStillOpen(f) == f

\* the file object f after f.close()
AfterClose(f) == [f EXCEPT !.state = "closed"]

\* line 74: temp_file.close(); a close that raises still releases the handle
Close(r) ==
  /\ pc[r] = "close"
  /\ loop = r
  /\ temp_file' = [temp_file EXCEPT ![r] = AfterClose(@)]
  /\ \/ /\ pc' = [pc EXCEPT ![r] = "construct"]
        /\ UNCHANGED pending
     \/ RaiseInTry(r, Error("OSError", <<"close">>))
  /\ UNCHANGED <<parserMap, loop, disk, formats, filename, suffix, parser, i,
                 attempts, sleeps, last, created, released, stdout, resp>>

\* line 77: parser = PARSER_MAP[suffix]()
Construct(r) ==
  /\ pc[r] = "construct"
  /\ loop = r
  /\ \/ /\ parser' = [parser EXCEPT ![r] = Lookup(parserMap, suffix[r])]
        /\ pc' = [pc EXCEPT ![r] = "parse"]
        /\ UNCHANGED pending
     \/ /\ RaiseInTry(r, Error("ParserError", <<"construct">>))
        /\ UNCHANGED parser
  /\ UNCHANGED <<parserMap, loop, disk, formats, filename, suffix, temp_file, i,
                 attempts, sleeps, last, created, released, stdout, resp>>

\* lines 79-80: result = parser(temp_file.name); return {...}: the parser
\* returns the content it decodes from the staged upload, or raises
Parse(r) ==
  /\ pc[r] = "parse"
  /\ loop = r
  /\ \/ /\ pending' = [pending EXCEPT ![r] =
             Returning(SuccessEnvelope(<<parser[r], filename[r]>>))]
        /\ pc' = [pc EXCEPT ![r] = "finally"]
     \/ RaiseInTry(r, Error("ParserError", <<"decode">>))
  /\ UNCHANGED <<parserMap, loop, disk, formats, filename, suffix, temp_file,
                 parser, i, attempts, sleeps, last, created, released, stdout, resp>>

(* ------------------- the finally block, lines 81-97 -------------------- *)

\* a mutant of DiskAfterUnlink: a successful os.unlink leaves the file
DiskAfterUnlinkKeeps(d, path, outcome) == d

\* line 89: os.unlink(temp_file.name) removes the path unless it raises
DiskAfterUnlink(d, path, outcome) == IF outcome = "ok" THEN d \ {path} ELSE d

\* a mutant of RetryOn: every failure of os.unlink is retried
RetryOnAnyError(outcome) == outcome # "ok"

\* line 91: except PermissionError
RetryOn(outcome) == outcome = "PermissionError"

\* line 92: if i < max_retries - 1
SleepsBeforeRetry(k) == k < max_retries - 1

\* a mutant of NextIteration: the loop never runs out of values
NextIterationAlways(k) == TRUE

\* line 86: for i in range(max_retries) has a next value after k
NextIteration(k) == k + 1 < max_retries

\* a mutant of PrintCouldNotDelete: nothing is printed
PrintNothing(out, name) == out

\* line 95: print(f"Warning: Could not delete temporary file: {temp_file.name}")
PrintCouldNotDelete(out, name) ==
  Append(out, <<"Warning: Could not delete temporary file: ", name>>)

\* line 97: print(f"Warning: Error while deleting temporary file: {str(e)}")
PrintErrorWhileDeleting(out, e) ==
  Append(out, <<"Warning: Error while deleting temporary file: ", Str(e)>>)

\* a mutant of AfterCleanupError: the error raised in the finally block
\* replaces the pending outcome
CleanupErrorPropagates(p, e) == Raising(e)

\* lines 96-97: except Exception swallows the error of the cleanup, the
\* pending outcome of the try body stays
AfterCleanupError(p, e) == p

\* lines 81-86: the finally block starts; if temp_file: the loop starts at 0
Finally(r) ==
  /\ pc[r] = "finally"
  /\ loop = r
  /\ released' = [released EXCEPT ![r] = @ + 1]
  /\ IF temp_file[r].state # "none"
     THEN /\ i' = [i EXCEPT ![r] = 0]
          /\ pc' = [pc EXCEPT ![r] = "unlink"]
     ELSE /\ pc' = [pc EXCEPT ![r] = "end_finally"]
          /\ UNCHANGED i
  /\ UNCHANGED <<parserMap, loop, disk, formats, filename, suffix, temp_file,
                 parser, pending, attempts, sleeps, last, created, stdout, resp>>

\* lines 87-97: one pass of the loop body up to the sleep
TryUnlink(r) ==
  /\ pc[r] = "unlink"
  /\ loop = r
  /\ LET name == temp_file[r].name IN
       IF name \notin disk
       THEN \* line 88 is false, line 90: break
            /\ pc' = [pc EXCEPT ![r] = "end_finally"]
            /\ UNCHANGED <<disk, attempts, last, stdout, pending>>
       ELSE \E o \in UnlinkOutcomes :
            /\ attempts' = [attempts EXCEPT ![r] = @ + 1]
            /\ last' = [last EXCEPT ![r] = o]
            /\ disk' = DiskAfterUnlink(disk, name, o)
            /\ IF o = "ok"
               THEN \* line 90: break
                    /\ pc' = [pc EXCEPT ![r] = "end_finally"]
                    /\ UNCHANGED <<stdout, pending>>
               ELSE IF RetryOn(o)
               THEN \* lines 91-95
                    /\ UNCHANGED pending
                    /\ IF SleepsBeforeRetry(i[r])
                       THEN /\ pc' = [pc EXCEPT ![r] = "sleep"]
                            /\ UNCHANGED stdout
                       ELSE /\ stdout' = [stdout EXCEPT ![r] = PrintCouldNotDelete(@, name)]
                            /\ pc' = [pc EXCEPT ![r] =
                                 IF NextIteration(i[r]) THEN "next" ELSE "end_finally"]
               ELSE \* lines 96-97
                    /\ stdout' = [stdout EXCEPT ![r] =
                         PrintErrorWhileDeleting(@, Error(o, <<"unlink">>))]
                    /\ pending' = [pending EXCEPT ![r] =
                         AfterCleanupError(@, Error(o, <<"unlink">>))]
                    /\ pc' = [pc EXCEPT ![r] = "end_finally"]
  /\ UNCHANGED <<parserMap, loop, formats, filename, suffix, temp_file, parser,
                 i, sleeps, created, released, resp>>

\* line 93: time.sleep(0.1) returns, and the loop goes to its next value
\* (line 86); time.sleep does not await, the coroutine holds the event loop
\* while it waits
Sleep(r) ==
  /\ pc[r] \in {"sleep", "next"}
  /\ loop = r
  /\ sleeps' = [sleeps EXCEPT ![r] = IF pc[r] = "sleep" THEN @ + 1 ELSE @]
  /\ IF NextIteration(i[r])
     THEN /\ i' = [i EXCEPT ![r] = @ + 1]
          /\ pc' = [pc EXCEPT ![r] = "unlink"]
     ELSE /\ pc' = [pc EXCEPT ![r] = "end_finally"]
          /\ UNCHANGED i
  /\ UNCHANGED <<parserMap, loop, disk, formats, filename, suffix, temp_file,
                 parser, pending, attempts, last, created, released, stdout, resp>>

\* the coroutine of request r ends: its locals are gone, the event loop is free
Leave(r) ==
  /\ pc' = [pc EXCEPT ![r] = "done"]
  /\ loop' = 0
  /\ suffix' = [suffix EXCEPT ![r] = <<>>]
  /\ temp_file' = [temp_file EXCEPT ![r] = None]
  /\ parser' = [parser EXCEPT ![r] = "none"]
  /\ pending' = [pending EXCEPT ![r] = NoPending]
  /\ i' = [i EXCEPT ![r] = 0]
  /\ attempts' = [attempts EXCEPT ![r] = 0]
  /\ sleeps' = [sleeps EXCEPT ![r] = 0]
  /\ last' = [last EXCEPT ![r] = "none"]

\* line 80 after the finally block: the pending return value is returned and
\* the framework sends it
Return(r) ==
  /\ pc[r] = "end_finally"
  /\ loop = r
  /\ pending[r].kind = "return"
  /\ resp' = [resp EXCEPT ![r] = ReturnResponse(pending[r].value)]
  /\ Leave(r)
  /\ UNCHANGED <<parserMap, disk, formats, filename, created, released, stdout>>

\* lines 99-103: an exception raised at lines 58-68, or left pending by the
\* finally block, is caught by except Exception and raised again as the
\* error envelope, which the framework sends
Except(r) ==
  /\ \/ pc[r] = "except"
     \/ pc[r] = "end_finally" /\ pending[r].kind = "raise"
  /\ loop = r
  /\ resp' = [resp EXCEPT ![r] = RaiseResponse(ErrorEnvelope(pending[r].value))]
  /\ Leave(r)
  /\ UNCHANGED <<parserMap, disk, formats, filename, created, released, stdout>>

(* ------------- GET /supported-formats: get_supported_formats ----------- *)

\* lines 105-108; the coroutine has no await and runs when the loop is idle
GetSupportedFormats ==
  /\ loop = 0
  /\ formats' = ReturnResponse(<<"supported_formats", Keys(parserMap)>>)
  /\ UNCHANGED <<parserMap, loop, disk, pc, filename, suffix, temp_file, parser,
                 pending, i, attempts, sleeps, last, created, released, stdout, resp>>

(* --------------------------- specification ----------------------------- *)

\* the steps of request r
Step(r) ==
  \/ Enter(r)
  \/ Create(r)
  \/ Read(r)
  \/ Write(r)
  \/ Flush(r)
  \/ Close(r)
  \/ Construct(r)
  \/ Parse(r)
  \/ Finally(r)
  \/ TryUnlink(r)
  \/ Sleep(r)
  \/ Return(r)
  \/ Except(r)

Next ==
  \/ \E r \in Requests : Step(r)
  \/ GetSupportedFormats

Spec == Init /\ [][Next]_vars

\* the event loop keeps running whichever coroutine is ready, and every call
\* the handler makes (file.read(), the parser, os.unlink, time.sleep) returns
\* or raises: a step that stays possible is eventually taken
FairSpec == Spec /\ WF_vars(Next)

(* ------------------------------ properties ----------------------------- *)

\* the response rsp is the success envelope with status 200
IsSuccess(rsp) ==
  /\ rsp.status = 200
  /\ Len(rsp.body) = 4
  /\ rsp.body[1] = "status" /\ rsp.body[2] = "success" /\ rsp.body[3] = "content"

\* the response rsp has the given status and the body {"detail": ...}
IsError(rsp, status) ==
  /\ rsp.status = status
  /\ Len(rsp.body) = 2
  /\ rsp.body[1] = "detail"

\* the response rsp is the 500 envelope "Error processing file: <message>"
IsProcessingError(rsp) ==
  /\ IsError(rsp, 500)
  /\ Len(rsp.body[2]) = 2
  /\ rsp.body[2][1] = "Error processing file: "

\* the response rsp is the 500 envelope carrying the message msg
IsProcessingErrorWith(rsp, msg) ==
  /\ IsProcessingError(rsp)
  /\ Len(rsp.body[2][2]) = Len(msg)
  /\ rsp.body[2][2] = msg

\* the ten registered extensions, in the order of their registration
TenExtensions ==
  << <<".","p","d","f">>, <<".","d","o","c","x">>, <<".","x","l","s","x">>,
     <<".","x","l","s">>, <<".","p","p","t","x">>, <<".","p","p","t">>,
     <<".","h","t","m","l">>, <<".","j","s","o","n">>, <<".","m","d">>,
     <<".","t","x","t">> >>

\* the lower-cased extension of request r's file name is registered
Registered(r) == \E k \in 1..Len(TenExtensions) : SuffixOf(filename[r]) = TenExtensions[k]

\* request r's coroutine ends in this step
Completes(r) == pc[r] \notin {"none", "done"} /\ pc'[r] = "done"

\* C1: every upload whose lower-cased extension is not registered is answered
\* with status 400 and the detail 'Unsupported file type: <ext>. Supported
\* types are: <list>' naming all registered extensions.
C1_UnsupportedAnswers400 ==
  \A r \in Requests :
    (pc[r] = "done" /\ ~Registered(r)) =>
       /\ IsError(resp[r], 400)
       /\ Len(resp[r].body[2]) = 4
       /\ resp[r].body[2] = <<"Unsupported file type: ", SuffixOf(filename[r]),
                              ". Supported types are: ", TenExtensions>>

\* C2: when the parser raises for a staged scratch file, the response is
\* status 500 with detail 'Error processing file: <message of the parser>',
\* os.unlink has been called on the scratch file, and the file is gone when
\* the response is produced if the last call succeeded.
C2_ParserFailure ==
  [][\A r \in Requests :
       (/\ Completes(r)
        /\ pending[r].kind = "raise"
        /\ pending[r].value.type = "ParserError")
       => /\ IsProcessingErrorWith(resp'[r], pending[r].value.detail)
          /\ attempts[r] >= 1
          /\ (last[r] = "ok" => temp_file[r].name \notin disk')]_vars

\* C2 witness: a request was answered with the parser's decode failure
C2_Witness ==
  \E r \in Requests :
    /\ pc[r] = "done"
    /\ IsProcessingErrorWith(resp[r], <<"decode">>)
    /\ stdout[r] = <<>>

\* C3, as claimed: when a request is answered with the success envelope, its
\* scratch file does not exist on disk.
C3_SuccessScratchGone ==
  [][\A r \in Requests :
       (Completes(r) /\ IsSuccess(resp'[r])) => temp_file[r].name \notin disk']_vars

\* C3, amended: when a request is answered with the success envelope, its
\* scratch file does not exist on disk, unless the last call of os.unlink
\* failed and a warning was printed.
C3_SuccessScratchGoneOrWarned ==
  [][\A r \in Requests :
       (Completes(r) /\ IsSuccess(resp'[r])) =>
          \/ temp_file[r].name \notin disk'
          \/ /\ last[r] \in {"PermissionError", "OSError"}
             /\ Len(stdout'[r]) = 1]_vars

\* C3 witness: a success is about to be returned after the scratch file was
\* deleted at the third attempt
C3_Witness ==
  \E r \in Requests :
    /\ pc[r] = "end_finally"
    /\ pending[r].kind = "return"
    /\ attempts[r] = 3 /\ last[r] = "ok"
    /\ temp_file[r].name \notin disk

\* C4, as claimed: every request that reaches the staging step creates exactly
\* one scratch file, and when it completes the file is deleted or a warning
\* was printed.
C4_ExactlyOneScratchFile ==
  [][\A r \in Requests :
       (Completes(r) /\ Registered(r)) =>
          /\ created'[r] = 1
          /\ \/ temp_file[r].name \notin disk'
             \/ Len(stdout'[r]) >= 1]_vars

\* C4, amended: every request that reaches the staging step creates at most
\* one scratch file, exactly one unless creating it raises; when the request
\* completes, a file it created is deleted or a warning was printed.
C4_AtMostOneScratchFile ==
  [][\A r \in Requests :
       (Completes(r) /\ Registered(r)) =>
          /\ created'[r] <= 1
          /\ created'[r] = 0 <=> IsProcessingErrorWith(resp'[r], <<"create">>)
          /\ created'[r] = 1 =>
               /\ temp_file[r].state # "none"
               /\ \/ temp_file[r].name \notin disk'
                  \/ Len(stdout'[r]) >= 1]_vars

\* C4 witness: a request is about to complete with its scratch file on disk
\* after three permission errors
C4_Witness ==
  \E r \in Requests :
    /\ pc[r] = "end_finally"
    /\ created[r] = 1
    /\ attempts[r] = 3 /\ last[r] = "PermissionError"
    /\ temp_file[r].name \in disk
    /\ Len(stdout[r]) = 1

\* C5: the cleanup never changes the response: no step of the finally block
\* changes the pending outcome of the try body, whatever os.unlink does, and
\* the response is that outcome: the returned envelope with status 200, or
\* status 500 with the message of the raised exception.
C5_CleanupInvisible ==
  [][\A r \in Requests :
       /\ (pc[r] \in {"finally", "unlink", "sleep", "next"}) => pending'[r] = pending[r]
       /\ (pc[r] = "end_finally" /\ Completes(r)) =>
            IF pending[r].kind = "return"
            THEN resp'[r].status = 200 /\ resp'[r].body = pending[r].value
            ELSE IsProcessingErrorWith(resp'[r], Str(pending[r].value))]_vars

\* C5 witness: requests were answered with a success and with a parser failure
\* although the deletion of their scratch files failed
C5_Witness ==
  /\ \E r \in Requests :
       pc[r] = "done" /\ IsSuccess(resp[r]) /\ Len(stdout[r]) = 1
  /\ \E r \in Requests :
       /\ pc[r] = "done"
       /\ IsProcessingErrorWith(resp[r], <<"decode">>)
       /\ Len(stdout[r]) = 1

\* C6: at most 3 calls of os.unlink per scratch file; a call after the first
\* is made only if the call before it ended with PermissionError, with exactly
\* one sleep between two calls; after a success or any other error the loop
\* is over; after the third PermissionError a warning is printed and the loop
\* is over.
C6_BoundedRetries ==
  [][\A r \in Requests :
       /\ attempts'[r] <= 3
       /\ sleeps'[r] <= 2
       /\ attempts'[r] # attempts[r] /\ pc'[r] # "done" =>
            /\ attempts'[r] = attempts[r] + 1
            /\ attempts[r] >= 1 => last[r] = "PermissionError"
            /\ sleeps[r] = attempts[r]
       /\ sleeps'[r] # sleeps[r] /\ pc'[r] # "done" =>
            /\ sleeps'[r] = sleeps[r] + 1
            /\ last[r] = "PermissionError"
            /\ sleeps'[r] = attempts[r]
       /\ last'[r] \in {"ok", "OSError"} => pc'[r] = "end_finally"
       /\ (last'[r] = "PermissionError" /\ attempts'[r] = 3) =>
            /\ pc'[r] = "end_finally"
            /\ stdout'[r] = <<<<"Warning: Could not delete temporary file: ",
                                temp_file'[r].name>>>>]_vars

\* C6 witness: the third call of os.unlink has failed with PermissionError
\* after two sleeps
C6_Witness ==
  \E r \in Requests :
    /\ pc[r] = "end_finally"
    /\ attempts[r] = 3 /\ sleeps[r] = 2
    /\ last[r] = "PermissionError"

\* C7: while a request waits between two deletion attempts, every other
\* request in flight can take its next step.
C7_RetriesBlockOnlyOwner ==
  \A r \in Requests, q \in Requests :
    (r # q /\ pc[r] = "sleep" /\ pc[q] \notin {"none", "done"}) => ENABLED Step(q)

\* C8: every request ends in one of three outcomes: the success envelope
\* (200), UnsupportedFormat (400) or 'Error processing file' (500), the last
\* carrying the message of a failed staging or parsing step or of an exception
\* raised before staging; nothing else leaves the handler.
C8_StructuredOutcome ==
  \A r \in Requests :
    pc[r] = "done" =>
      \/ IsSuccess(resp[r])
      \/ /\ IsError(resp[r], 400)
         /\ Len(resp[r].body[2]) = 4
         /\ resp[r].body[2][1] = "Unsupported file type: "
      \/ /\ IsProcessingError(resp[r])
         /\ \/ /\ Len(resp[r].body[2][2]) = 1
               /\ resp[r].body[2][2][1] \in
                    {"create", "read", "write", "flush", "close", "construct", "decode"}
            \/ /\ Len(resp[r].body[2][2]) = 3
               /\ resp[r].body[2][2][1] = 400

\* C8 witness: requests were answered with the success envelope and with the
\* envelope of a failed write
C8_Witness ==
  /\ \E r \in Requests : pc[r] = "done" /\ IsProcessingErrorWith(resp[r], <<"write">>)
  /\ \E r \in Requests : pc[r] = "done" /\ IsSuccess(resp[r])

\* the registered extensions in upper case
TenExtensionsUpper == [k \in 1..Len(TenExtensions) |-> Upper(TenExtensions[k])]

\* request r's file name is a stem followed by the k-th registered extension
\* written in some mix of upper and lower case
HasExtension(r, k) ==
  \E stem \in Stems :
    LET name == filename[r]
        ext == TenExtensions[k]
    IN /\ Len(name) = Len(stem) + Len(ext)
       /\ SubSeq(name, 1, Len(stem)) = stem
       /\ \A j \in 1..Len(ext) :
            name[Len(stem) + j] \in {ext[j], TenExtensionsUpper[k][j]}

\* C9: an upload whose extension is a registered extension in any mix of
\* cases is dispatched on the registered extension: the extension check lets
\* it pass with the lower-cased suffix, the parser constructed for it is the
\* one registered for that extension, and its answer is the content decoded
\* by that parser or a failure of staging or parsing, never UnsupportedFormat.
C9_CaseInsensitiveDispatch ==
  [][\A r \in Requests :
       (\/ pc[r] = "received" /\ pc'[r] # "received"
        \/ pc[r] = "construct" /\ pc'[r] = "parse"
        \/ Completes(r))
       => \A k \in 1..Len(TenExtensions) :
            HasExtension(r, k) =>
              /\ pc[r] = "received" =>
                   pc'[r] = "create" /\ suffix'[r] = TenExtensions[k]
              /\ pc'[r] = "parse" => parser'[r] = PARSER_MAP[k][2]
              /\ pc'[r] = "done" =>
                   \/ IsSuccess(resp'[r]) /\ resp'[r].body[4][1] = PARSER_MAP[k][2]
                   \/ IsProcessingError(resp'[r]) /\ Len(resp'[r].body[2][2]) = 1]_vars

\* C9 witness: the upload a.b.XlSx was answered with the content decoded by the
\* parser registered for .xlsx
C9_Witness ==
  \E r \in Requests :
    /\ filename[r] = <<"a",".","b",".","X","l","S","x">>
    /\ pc[r] = "done"
    /\ IsSuccess(resp[r])
    /\ resp[r].body[4] = <<"ExcelParser", filename[r]>>

\* C10: the registry is never modified, and every answer of GET
\* /supported-formats is the list of the 10 registered extensions in the order
\* of registration, whatever requests were handled before.
C10_RegistryStable ==
  /\ parserMap = PARSER_MAP
  /\ Keys(parserMap) = TenExtensions
  /\ formats # NoResponse =>
       formats = [status |-> 200, body |-> <<"supported_formats", TenExtensions>>]

\* C10 witness: the formats were listed after a success, an unsupported upload
\* and a failed parse had been answered
C10_Witness ==
  /\ formats.status = 200
  /\ \E r \in Requests : pc[r] = "done" /\ IsProcessingErrorWith(resp[r], <<"decode">>)
  /\ \E r \in Requests : pc[r] = "done" /\ ~Registered(r)

\* C11: a request whose extension is not registered goes from the extension
\* check straight to its error response: it creates no scratch file, writes
\* nothing, constructs and calls no parser, and never calls os.unlink.
C11_UnsupportedTouchesNothing ==
  [][\A r \in Requests :
       (\/ pc[r] = "received" /\ pc'[r] # "received"
        \/ Completes(r))
       => \/ /\ pc'[r] \in {"except", "done"}
             /\ pc[r] \in {"received", "except"}
             /\ created'[r] = 0
             /\ temp_file[r] = None /\ temp_file'[r] = None
             /\ parser[r] = "none" /\ parser'[r] = "none"
             /\ attempts[r] = 0 /\ attempts'[r] = 0
             /\ stdout'[r] = <<>>
             /\ disk' = disk
          \/ Registered(r)]_vars

\* C11 witness: the upload a.xyz was answered with an error and has created
\* no file
C11_Witness ==
  \E r \in Requests :
    /\ filename[r] = <<"a",".","x","y","z">>
    /\ pc[r] = "done"
    /\ resp[r].status >= 400
    /\ created[r] = 0

\* C12: the finally block is entered exactly once for every scratch file that
\* was created, whichever way the try body is left, never for a request that
\* created none, never twice; and a request that created a scratch file is
\* answered only from the end of the finally block.
C12_ReleasedExactlyOnce ==
  [][\A r \in Requests :
       /\ released'[r] <= created'[r]
       /\ Completes(r) =>
            /\ released'[r] = created'[r]
            /\ created'[r] = 1 => pc[r] = "end_finally"]_vars

\* C12 witness: requests were answered after a failed flush and after a
\* successful parse, each having entered its finally block once
C12_Witness ==
  /\ \E r \in Requests :
       /\ pc[r] = "done"
       /\ IsProcessingErrorWith(resp[r], <<"flush">>)
       /\ created[r] = 1 /\ released[r] = 1
  /\ \E r \in Requests :
       /\ pc[r] = "done"
       /\ IsSuccess(resp[r])
       /\ created[r] = 1 /\ released[r] = 1

\* C13: once creating the temporary file, reading the upload, writing,
\* flushing or closing has raised, no parser is constructed or called for the
\* request, and its response is status 500 with 'Error processing file:
\* <message of the failed step>'.
C13_StagingFailure ==
  [][\A r \in Requests :
       /\ (pending'[r].kind = "raise" /\ pending'[r].value.type = "OSError") =>
            /\ pc'[r] \in {"finally", "unlink", "sleep", "next", "end_finally", "except"}
            /\ parser'[r] = "none"
       /\ (Completes(r) /\ pending[r].kind = "raise" /\ pending[r].value.type = "OSError") =>
            /\ pending[r].value.detail[1] \in {"create", "read", "write", "flush", "close"}
            /\ IsProcessingErrorWith(resp'[r], pending[r].value.detail)
            /\ parser[r] = "none"]_vars

\* C13 witness: requests were answered with the failure of creating the
\* temporary file and with the failure of closing it
C13_Witness ==
  /\ \E r \in Requests : pc[r] = "done" /\ IsProcessingErrorWith(resp[r], <<"create">>)
  /\ \E r \in Requests : pc[r] = "done" /\ IsProcessingErrorWith(resp[r], <<"close">>)

\* C14: whenever a parser is about to be called on a scratch file, the upload
\* has been written to the file, the file has been flushed and closed, it
\* exists, and its path ends in the lower-cased extension that passed the
\* check.
C14_StagedBeforeParse ==
  \A r \in Requests :
    pc[r] = "parse" =>
      /\ temp_file[r].written
      /\ temp_file[r].flushed
      /\ temp_file[r].state = "closed"
      /\ temp_file[r].name \in disk
      /\ temp_file[r].name[2] = suffix[r]
      /\ suffix[r] = Lower(suffix[r])
      /\ \E k \in 1..Len(TenExtensions) : suffix[r] = TenExtensions[k]

\* C14 witness: the parser is about to be called on the scratch file of a.PDF
C14_Witness ==
  \E r \in Requests :
    /\ pc[r] = "parse"
    /\ filename[r] = <<"a",".","P","D","F">>
    /\ temp_file[r].name[2] = <<".","p","d","f">>
    /\ temp_file[r].state = "closed"

\* C15: no scratch file is shared: two requests never hold the same path,
\* and from its creation until its owner's finally block the scratch file of
\* a request stays on disk, whatever the other requests delete meanwhile.
C15_NoSharedScratchFile ==
  \A r \in Requests :
    /\ pc[r] \in {"read", "write", "flush", "close", "construct", "parse", "finally"}
         => temp_file[r].name \in disk
    /\ \A q \in Requests :
         (q # r /\ temp_file[r].state # "none" /\ temp_file[q].state # "none")
           => temp_file[r].name # temp_file[q].name

\* C15 witness: a request has just deleted its scratch file while another
\* request, suspended in file.read(), has its own scratch file on disk
C15_Witness ==
  \E r \in Requests, q \in Requests :
    /\ r # q
    /\ pc[r] = "end_finally" /\ last[r] = "ok"
    /\ temp_file[r].name \notin disk
    /\ pc[q] = "read"
    /\ temp_file[q].name \in disk
    /\ temp_file[q].name[2] = temp_file[r].name[2]

\* how far request r has come: Received, ExtensionChecked (create), Staged
\* (read .. close), Parsed (construct, parse), the cleanup, Responded
Progress(p, k) ==
  CASE p = "none" -> 0
    [] p = "received" -> 0
    [] p = "create" -> 1
    [] p = "read" -> 2
    [] p = "write" -> 3
    [] p = "flush" -> 4
    [] p = "close" -> 5
    [] p = "construct" -> 6
    [] p = "parse" -> 7
    [] p = "finally" -> 8
    [] p = "unlink" -> 9 + 2 * k
    [] p = "sleep" -> 10 + 2 * k
    [] p = "next" -> 10 + 2 * k
    [] p = "end_finally" -> 20
    [] p = "except" -> 21
    [] p = "done" -> 22

\* C16: every received request is eventually answered; on the way it only
\* moves forward through Received, ExtensionChecked, Staged, Parsed, cleanup
\* and Responded, its cleanup makes at most 3 deletion attempts, and it
\* produces exactly one response, which is never changed afterwards.
C16_EveryRequestResponds ==
  /\ [][\A r \in Requests :
          /\ attempts'[r] <= 3
          /\ pc'[r] # pc[r] => Progress(pc'[r], i'[r]) > Progress(pc[r], i[r])
          /\ resp'[r] # resp[r] => Completes(r) /\ resp[r] = NoResponse
          /\ Completes(r) => resp'[r].status \in {200, 400, 500}
          /\ pc[r] = "done" => pc'[r] = "done"]_vars
  /\ \A r \in Requests : (pc[r] = "received") ~> (pc[r] = "done")

\* C16 witness: a request was answered after three failed deletion attempts
C16_Witness ==
  \E r \in Requests :
    /\ pc[r] = "done"
    /\ IsSuccess(resp[r])
    /\ stdout[r] = <<<<"Warning: Could not delete temporary file: ", <<1, <<".","p","d","f">>>>>>>>

\* C17: whenever the cleanup is about to test and delete the scratch file
\* (lines 88-89), the handler's own handle on it is closed, also after a
\* failed read, write or flush.
C17_ClosedBeforeDelete ==
  \A r \in Requests :
    pc[r] = "unlink" => temp_file[r].state = "closed"

====
